---- MODULE Spec2Model ----
(***************************************************************************)
(* A model of github.com/coder/pretty: the Text fragment chain (text.go),  *)
(* the formatters built on it (helpers.go) and Style composition.          *)
(*                                                                         *)
(* A Go string is a sequence of one-character strings.  The heap of Text   *)
(* values is a sequence of records; a *Text is an index into it and nil    *)
(* is 0.  Every operation is an operator from a heap to a result record    *)
(* [h, ret, panic]: the heap after the call, the returned pointer and      *)
(* whether the call panicked.                                              *)
(***************************************************************************)
EXTENDS Integers, Sequences, FiniteSets, TLC

----------------------------------------------------------------------------
(* Bounds of the model. *)

MaxSize == 5
MaxWidth == 3
MaxWrapText == 4
MaxWrapFrags == 3
MaxLeaves == 2
MaxStyleText == 2
MaxStyleLen == 2
MaxSpare == 2
MaxDerived == 2
MaxWithArgs == 2

----------------------------------------------------------------------------
(* Strings. *)

nil == 0

Chars == {"a", " ", "\n"}

StrsUpTo(n) == UNION {[1..k -> Chars] : k \in 0..n}

RECURSIVE Concat(_)
Concat(ss) == IF ss = <<>> THEN <<>> ELSE Head(ss) \o Concat(Tail(ss))

\* s[lo:hi] of Go, 0-based and half-open
Slice(s, lo, hi) == SubSeq(s, lo + 1, hi)

\* strings.IndexByte: 0-based index of the first c in s, or -1
IndexByte(s, c) ==
    IF \E i \in 1..Len(s) : s[i] = c
    THEN (CHOOSE i \in 1..Len(s) : s[i] = c /\ \A j \in 1..(i - 1) : s[j] # c) - 1
    ELSE -1

\* unicode.IsSpace, on the characters of the model
IsSpace(c) == c \in {" ", "\t", "\n"}

\* LastIndexFunc that forgets its predicate: the last index of s
LastIndexAny(s) == Len(s) - 1

\* strings.LastIndexFunc(s, unicode.IsSpace)
LastIndexFunc(s) ==
    IF \E i \in 1..Len(s) : IsSpace(s[i])
    THEN (CHOOSE i \in 1..Len(s) :
              IsSpace(s[i]) /\ \A j \in (i + 1)..Len(s) : ~IsSpace(s[j])) - 1
    ELSE -1

\* the cutset " \t" of LineWrap's trims
Cutset == {" ", "\t"}

RECURSIVE TrimRight(_)
TrimRight(s) ==
    IF s # <<>> /\ s[Len(s)] \in Cutset THEN TrimRight(SubSeq(s, 1, Len(s) - 1)) ELSE s

RECURSIVE TrimLeft(_)
TrimLeft(s) ==
    IF s # <<>> /\ s[1] \in Cutset THEN TrimLeft(Tail(s)) ELSE s

----------------------------------------------------------------------------
(* The Text chain: text.go. *)

Text(s, next, prev) == [S |-> s, Next |-> next, Prev |-> prev]

RECURSIVE TextHead(_, _)
TextHead(h, t) == IF h[t].Prev # nil THEN TextHead(h, h[t].Prev) ELSE t

RECURSIVE TextTail(_, _)
TextTail(h, t) == IF h[t].Next # nil THEN TextTail(h, h[t].Next) ELSE t

\* Insert without the oldPrev # nil guard: on the head it dereferences nil
InsertUnguarded(h, t, s) ==
    IF h[t].Prev = nil THEN [h |-> h, ret |-> nil, panic |-> TRUE]
    ELSE LET tt == Len(h) + 1
             oldPrev == h[t].Prev
             h1 == Append(h, Text(s, nil, nil))
             h2 == [h1 EXCEPT ![oldPrev].Next = tt]
             h3 == [h2 EXCEPT ![tt].Prev = oldPrev, ![tt].Next = t, ![t].Prev = tt]
         IN  [h |-> h3, ret |-> tt, panic |-> FALSE]

\* Insert that forgets the receiver's back link (t.Prev = tt)
InsertNoBackLink(h, t, s) ==
    LET tt == Len(h) + 1
        oldPrev == h[t].Prev
        h1 == Append(h, Text(s, nil, nil))
        h2 == IF oldPrev # nil THEN [h1 EXCEPT ![oldPrev].Next = tt] ELSE h1
        h3 == [h2 EXCEPT ![tt].Prev = oldPrev, ![tt].Next = t]
    IN  [h |-> h3, ret |-> tt, panic |-> FALSE]

Insert(h, t, s) ==
    LET tt == Len(h) + 1
        oldPrev == h[t].Prev
        h1 == Append(h, Text(s, nil, nil))
        h2 == IF oldPrev # nil THEN [h1 EXCEPT ![oldPrev].Next = tt] ELSE h1
        h3 == [h2 EXCEPT ![tt].Prev = oldPrev, ![tt].Next = t, ![t].Prev = tt]
    IN  [h |-> h3, ret |-> tt, panic |-> FALSE]

\* Split without its range checks: an index past the end is clamped
SplitClamped(h, t, n) ==
    IF n > Len(h[t].S) \/ n <= 0 THEN [h |-> h, ret |-> t, panic |-> FALSE]
    ELSE IF Len(h[t].S) = n THEN [h |-> h, ret |-> t, panic |-> FALSE]
    ELSE LET nextStr == Slice(h[t].S, n, Len(h[t].S))
             h1 == [h EXCEPT ![t].S = Slice(h[t].S, 0, n)]
         IN  IF h1[t].Next = nil
             THEN LET id == Len(h1) + 1
                  IN  [h |-> Append([h1 EXCEPT ![t].Next = id], Text(nextStr, nil, t)),
                       ret |-> id, panic |-> FALSE]
             ELSE LET r == Insert(h1, h1[t].Next, nextStr)
                  IN  [h |-> r.h, ret |-> r.h[t].Next, panic |-> FALSE]

\* Split that forgets the successor: the new fragment always becomes the tail
SplitDropsNext(h, t, n) ==
    IF n > Len(h[t].S) THEN [h |-> h, ret |-> nil, panic |-> TRUE]
    ELSE IF n <= 0 THEN [h |-> h, ret |-> nil, panic |-> TRUE]
    ELSE IF Len(h[t].S) = n \/ Len(h[t].S) = 0 THEN [h |-> h, ret |-> t, panic |-> FALSE]
    ELSE LET nextStr == Slice(h[t].S, n, Len(h[t].S))
             h1 == [h EXCEPT ![t].S = Slice(h[t].S, 0, n)]
             id == Len(h1) + 1
         IN  [h |-> Append([h1 EXCEPT ![t].Next = id], Text(nextStr, nil, t)),
              ret |-> id, panic |-> FALSE]

Split(h, t, n) ==
    IF n > Len(h[t].S) THEN [h |-> h, ret |-> nil, panic |-> TRUE]
    ELSE IF n <= 0 THEN [h |-> h, ret |-> nil, panic |-> TRUE]
    ELSE IF Len(h[t].S) = n \/ Len(h[t].S) = 0 THEN [h |-> h, ret |-> t, panic |-> FALSE]
    ELSE LET nextStr == Slice(h[t].S, n, Len(h[t].S))
             h1 == [h EXCEPT ![t].S = Slice(h[t].S, 0, n)]
         IN  IF h1[t].Next = nil
             THEN LET id == Len(h1) + 1
                  IN  [h |-> Append([h1 EXCEPT ![t].Next = id], Text(nextStr, nil, t)),
                       ret |-> id, panic |-> FALSE]
             ELSE LET r == Insert(h1, h1[t].Next, nextStr)
                  IN  [h |-> r.h, ret |-> r.h[t].Next, panic |-> FALSE]

RECURSIVE WriteFrom(_, _)
WriteFrom(h, at) == IF at = nil THEN <<>> ELSE h[at].S \o WriteFrom(h, h[at].Next)

WriteTo(h, t) == WriteFrom(h, TextHead(h, t))

TextString(h, t) == WriteTo(h, t)

RECURSIVE LenFrom(_, _)
LenFrom(h, at) ==
    Len(h[at].S) + (IF h[at].Next = nil THEN 0 ELSE LenFrom(h, h[at].Next))

\* Len that counts from the receiver instead of the head
TextLenFromCursor(h, t) == LenFrom(h, t)

TextLen(h, t) == LenFrom(h, TextHead(h, t))

appendOne(h, t, s) ==
    LET oldTail == TextTail(h, t)
        newTail == Len(h) + 1
    IN  [h |-> Append([h EXCEPT ![oldTail].Next = newTail], Text(s, nil, oldTail)),
         ret |-> newTail, panic |-> FALSE]

RECURSIVE TextAppend(_, _, _)
TextAppend(h, t, ss) ==
    IF ss = <<>> THEN [h |-> h, ret |-> t, panic |-> FALSE]
    ELSE LET r == appendOne(h, t, Head(ss)) IN TextAppend(r.h, r.ret, Tail(ss))

prependOne(h, t, s) ==
    LET oldHead == TextHead(h, t)
        newHead == Len(h) + 1
    IN  [h |-> Append([h EXCEPT ![oldHead].Prev = newHead], Text(s, oldHead, nil)),
         ret |-> newHead, panic |-> FALSE]

RECURSIVE PrependLoop(_, _, _, _)
PrependLoop(h, t, ss, i) ==
    IF i < 1 THEN [h |-> h, ret |-> t, panic |-> FALSE]
    ELSE LET r == prependOne(h, t, ss[i]) IN PrependLoop(r.h, r.ret, ss, i - 1)

\* Prepend that walks its arguments first to last, as Append does
RECURSIVE PrependForward(_, _, _)
PrependForward(h, t, ss) ==
    IF ss = <<>> THEN [h |-> h, ret |-> t, panic |-> FALSE]
    ELSE LET r == prependOne(h, t, Head(ss)) IN PrependForward(r.h, r.ret, Tail(ss))

Prepend(h, t, ss) == PrependLoop(h, t, ss, Len(ss))

String(ss) ==
    IF Len(ss) = 0 THEN [h |-> <<Text(<<>>, nil, nil)>>, ret |-> 1, panic |-> FALSE]
    ELSE TextAppend(<<Text(ss[1], nil, nil)>>, 1, Tail(ss))

----------------------------------------------------------------------------
(* The formatters: helpers.go. *)

Repeat(c, n) == [i \in 1..n |-> c]

Wrap(prefix, suffix) == [kind |-> "Wrap", prefix |-> prefix, suffix |-> suffix]
XPad(left, right) == [kind |-> "XPad", left |-> left, right |-> right]
LineWrap(width) == [kind |-> "LineWrap", width |-> width]
Nop == [kind |-> "Nop"]
Style(fs) == [kind |-> "Style", fs |-> fs]

\* One iteration of LineWrap's loop, on the loop state [h, at, col, panic, breaks].
\* breaks is bookkeeping: the fragments next.Insert("\n") has created so far.
LineWrapBody(st, width) ==
    LET h == st.h
        at == st.at
        S == h[at].S
        nlIdx == IndexByte(S, "\n")
        nlAt == IF nlIdx < 0 THEN Len(S) ELSE nlIdx
        col == st.col + nlAt
        overflow == (width - col) * (-1)
        hi == nlAt - overflow + 1
    IN  IF overflow <= 0
        THEN [st EXCEPT !.at = h[at].Next, !.col = col]
        ELSE IF hi < 0 \/ hi > Len(S)
        THEN [st EXCEPT !.col = col, !.panic = TRUE]
        ELSE LET spaceAt == LastIndexFunc(Slice(S, 0, hi))
             IN  IF spaceAt < 0
                 THEN [st EXCEPT !.at = h[at].Next, !.col = col]
                 ELSE LET r == Split(h, at, spaceAt)
                      IN  IF r.panic
                          THEN [st EXCEPT !.col = col, !.panic = TRUE]
                          ELSE LET next == r.ret
                                   h1 == [r.h EXCEPT ![at].S = TrimRight(@)]
                                   h2 == [h1 EXCEPT ![next].S = TrimLeft(@)]
                                   ins == Insert(h2, next, <<"\n">>)
                               IN  [h |-> ins.h, at |-> ins.h[at].Next, col |-> 0,
                                    panic |-> FALSE,
                                    breaks |-> st.breaks \cup {ins.ret}]

RECURSIVE LineWrapLoop(_, _)
LineWrapLoop(st, width) ==
    IF st.panic \/ st.at = nil THEN st ELSE LineWrapLoop(LineWrapBody(st, width), width)

LineWrapRun(h, t, width) ==
    LineWrapLoop([h |-> h, at |-> TextHead(h, t), col |-> 0, panic |-> FALSE,
                  breaks |-> {}], width)

LineWrapFormat(h, t, width) ==
    LET st == LineWrapRun(h, t, width) IN [h |-> st.h, ret |-> nil, panic |-> st.panic]

WrapFormat(h, t, prefix, suffix) ==
    LET r == Prepend(h, t, <<prefix>>) IN [TextAppend(r.h, t, <<suffix>>) EXCEPT !.ret = nil]

XPadFormat(h, t, left, right) ==
    LET r == Prepend(h, t, <<Repeat(" ", left)>>)
    IN  [TextAppend(r.h, t, <<Repeat(" ", right)>>) EXCEPT !.ret = nil]

RECURSIVE Format(_, _, _)
RECURSIVE StyleFormat(_, _, _)
\* Style.Format: the members in order, on the same t; a panic ends the call
\* Style.Format that walks its members last to first
RECURSIVE StyleFormatReversed(_, _, _)
StyleFormatReversed(fs, h, t) ==
    IF fs = <<>> THEN [h |-> h, ret |-> nil, panic |-> FALSE]
    ELSE LET r == Format(fs[Len(fs)], h, t)
         IN  IF r.panic THEN r ELSE StyleFormatReversed(SubSeq(fs, 1, Len(fs) - 1), r.h, t)

StyleFormat(fs, h, t) ==
    IF fs = <<>> THEN [h |-> h, ret |-> nil, panic |-> FALSE]
    ELSE LET r == Format(Head(fs), h, t)
         IN  IF r.panic THEN r ELSE StyleFormat(Tail(fs), r.h, t)

Format(f, h, t) ==
    CASE f.kind = "Wrap" -> WrapFormat(h, t, f.prefix, f.suffix)
      [] f.kind = "XPad" -> XPadFormat(h, t, f.left, f.right)
      [] f.kind = "LineWrap" -> LineWrapFormat(h, t, f.width)
      [] f.kind = "Nop" -> [h |-> h, ret |-> nil, panic |-> FALSE]
      [] f.kind = "Style" -> StyleFormat(f.fs, h, t)

----------------------------------------------------------------------------
(* Style values: text.go.  A Style is a Go slice: a header [arr, len, cap]   *)
(* over a backing array of the heap of arrays as; arr = nil is the nil slice. *)

SliceHeader(arr, len, cap) == [arr |-> arr, len |-> len, cap |-> cap]

\* the zero value of the unused slots of an array: the nil Formatter
Zero == [kind |-> "nil"]

\* the elements of the slice sl
Elems(as, sl) == IF sl.arr = nil THEN <<>> ELSE SubSeq(as[sl.arr], 1, sl.len)

\* s[:hi:max] of a slice that starts at offset 0
Slice3(sl, hi, max) == SliceHeader(sl.arr, hi, max)

Max(x, y) == IF x >= y THEN x ELSE y

\* the builtin append(sl, fs...): in place while the capacity lasts, else into a
\* new array (of twice the capacity or what is needed; the allocator's rounding
\* of the new capacity is left out).  Returns [as, sl].
GoAppend(as, sl, fs) ==
    IF fs = <<>> THEN [as |-> as, sl |-> sl]
    ELSE IF sl.len + Len(fs) <= sl.cap
    THEN [as |-> [as EXCEPT ![sl.arr] =
                    [i \in 1..Len(@) |->
                        IF i > sl.len /\ i <= sl.len + Len(fs) THEN fs[i - sl.len] ELSE @[i]]],
          sl |-> SliceHeader(sl.arr, sl.len + Len(fs), sl.cap)]
    ELSE LET newcap == Max(sl.len + Len(fs), 2 * sl.cap)
             new == [i \in 1..newcap |->
                        IF i <= sl.len THEN as[sl.arr][i]
                        ELSE IF i <= sl.len + Len(fs) THEN fs[i - sl.len]
                        ELSE Zero]
         IN  [as |-> Append(as, new),
              sl |-> SliceHeader(Len(as) + 1, sl.len + Len(fs), newcap)]

\* With that appends to the receiver itself, spare capacity and all
WithShared(as, sl, fs) == GoAppend(as, sl, fs)

With(as, sl, fs) == GoAppend(as, Slice3(sl, sl.len, sl.len), fs)

----------------------------------------------------------------------------
(* The state: the heap of Text values and the call made last, and the   *)
(* Style values of the program.                                            *)

VARIABLES nodes, last, sty

vars == <<nodes, last, sty>>

\* The Style values: the arrays as, the Style s with the elements s0 it was
\* made with, and the Styles made from s by With, each with its arguments.
Styles(as, sl, s0, made) == [as |-> as, s |-> sl, s0 |-> s0, made |-> made]

\* no Style value yet: s is Style(nil)
NoStyles == Styles(<<>>, SliceHeader(nil, 0, 0), <<>>, <<>>)

Refs == 1..Len(nodes)

\* the strings and argument lists the calls are made with
ArgStrs == {<<>>, <<"a">>, <<" ">>}

ArgLists == {<<>>} \cup {<<s>> : s \in ArgStrs} \cup {<<s1, s2>> : s1, s2 \in ArgStrs}

\* s cut into Len(c) + 1 strings at the offsets c (fragments may be empty)
CutAt(s, c) ==
    [i \in 1..(Len(c) + 1) |->
        Slice(s, IF i = 1 THEN 0 ELSE c[i - 1], IF i > Len(c) THEN Len(s) ELSE c[i])]

Cuts(s, k) ==
    {c \in [1..k -> 0..Len(s)] : \A i \in 1..(k - 1) : c[i] <= c[i + 1]}

\* the size of a heap: its fragments and the characters they hold
RECURSIVE HeapText(_, _)
HeapText(h, i) == IF i = 0 THEN 0 ELSE Len(h[i].S) + HeapText(h, i - 1)

Size(h) == Len(h) + HeapText(h, Len(h))

Fits(h) == Size(h) <= MaxSize

\* the argument lists of String: no string, one, or two
InitLists ==
    {<<>>} \cup UNION {{CutAt(s, c) : c \in Cuts(s, k)} :
                          s \in StrsUpTo(MaxSize - 1), k \in 0..1}

\* the record of a call: its name, receiver, arguments and what it returned
Call(op, t, n, ss, f, r, breaks) ==
    [op |-> op, t |-> t, n |-> n, ss |-> ss, f |-> f, ret |-> r.ret, panic |-> r.panic,
     breaks |-> breaks]

Widths == 0..MaxWidth

\* the formatters the calls are made with
Formatters ==
    {Wrap(<<"a">>, <<" ">>), Wrap(<<>>, <<"a">>), XPad(0, 1), XPad(1, 0), Nop}
        \cup {LineWrap(w) : w \in Widths}

Init ==
    \E ss \in InitLists :
        LET r == String(ss)
        IN  /\ Fits(r.h)
            /\ nodes = r.h
            /\ last = Call("String", nil, 0, ss, Nop, r, {})
            /\ sty = NoStyles

\* between calls: the caller has taken the last call's result
Idle == Call("idle", nil, 0, <<>>, Nop, [ret |-> nil, panic |-> FALSE], {})

\* A call returns to its caller before the next one is made; a panic ends the
\* program, and no call follows one.
Return ==
    /\ last.op # "idle"
    /\ ~last.panic
    /\ last' = Idle
    /\ UNCHANGED <<nodes, sty>>

DoAppend ==
    /\ last = Idle
    /\ \E t \in Refs, ss \in ArgLists :
        LET r == TextAppend(nodes, t, ss)
        IN  /\ Size(nodes) + Len(ss) + Len(Concat(ss)) <= MaxSize
            /\ Fits(r.h)
            /\ nodes' = r.h
            /\ last' = Call("Append", nil, 0, ss, Nop, r, {})
            /\ UNCHANGED sty

DoPrepend ==
    /\ last = Idle
    /\ \E t \in Refs, ss \in ArgLists :
        LET r == Prepend(nodes, t, ss)
        IN  /\ Size(nodes) + Len(ss) + Len(Concat(ss)) <= MaxSize
            /\ Fits(r.h)
            /\ nodes' = r.h
            /\ last' = Call("Prepend", nil, 0, ss, Nop, r, {})
            /\ UNCHANGED sty

DoSplit ==
    /\ last = Idle
    /\ \E t \in Refs :
         \E n \in (-1)..(Len(nodes[t].S) + 1) :
            LET r == Split(nodes, t, n)
            IN  /\ Fits(r.h)
                /\ nodes' = r.h
                /\ last' = Call("Split", t, n, <<>>, Nop, r, {})
                /\ UNCHANGED sty

DoInsert ==
    /\ last = Idle
    /\ \E t \in Refs, s \in ArgStrs :
        LET r == Insert(nodes, t, s)
        IN  /\ Fits(r.h)
            /\ nodes' = r.h
            /\ last' = Call("Insert", t, 0, <<s>>, Nop, r, {})
            /\ UNCHANGED sty

DoFormat ==
    /\ last = Idle
    /\ \E t \in Refs, f \in Formatters :
        LET r == Format(f, nodes, t)
        IN  /\ Fits(r.h)
            /\ nodes' = r.h
            /\ last' = Call("Format", nil, 0, <<>>, f, r, {})
            /\ UNCHANGED sty

Next == DoAppend \/ DoPrepend \/ DoSplit \/ DoInsert \/ DoFormat \/ Return

Spec == Init /\ [][Next]_vars

----------------------------------------------------------------------------
(* LineWrap on the chains String builds: any fragments, any text.           *)

\* every argument list of String of at most MaxWrapFrags strings and at most
\* MaxWrapText characters in all
WrapInitLists ==
    {<<>>} \cup UNION {{CutAt(s, c) : c \in Cuts(s, k)} :
                          s \in StrsUpTo(MaxWrapText), k \in 0..(MaxWrapFrags - 1)}

InitWrap ==
    \E ss \in WrapInitLists :
        LET r == String(ss)
        IN  /\ nodes = r.h
            /\ last = Call("String", nil, 0, ss, Nop, r, {})
            /\ sty = NoStyles

DoLineWrap ==
    /\ last = Idle
    /\ \E t \in Refs, width \in Widths :
        LET st == LineWrapRun(nodes, t, width)
        IN  /\ nodes' = st.h
            /\ last' = Call("Format", nil, 0, <<>>, LineWrap(width),
                            [ret |-> nil, panic |-> st.panic], st.breaks)
            /\ UNCHANGED sty

NextWrap == DoLineWrap \/ Return

SpecWrap == InitWrap /\ [][NextWrap]_vars

----------------------------------------------------------------------------
(* Styles applied to the chains String builds.                              *)

Leaves ==
    {Wrap(<<"a">>, <<" ">>), Wrap(<<" ">>, <<"a">>), Nop, LineWrap(1)}

FlatLists == UNION {[1..k -> Leaves] : k \in 0..MaxLeaves}

\* Styles of at most MaxLeaves formatters: flat, or with a Style as first or
\* as last member, or a Style of a Style
StyleSet ==
    {Style(fs) : fs \in FlatLists}
        \cup {Style(<<Style(p[1])>> \o p[2]) :
                p \in {q \in FlatLists \X FlatLists : Len(q[1]) + Len(q[2]) <= MaxLeaves}}
        \cup {Style(p[1] \o <<Style(p[2])>>) :
                p \in {q \in FlatLists \X FlatLists : Len(q[1]) + Len(q[2]) <= MaxLeaves}}
        \cup {Style(<<Style(<<Style(fs)>>)>>) : fs \in FlatLists}

StyleInitLists ==
    {<<>>} \cup UNION {{CutAt(s, c) : c \in Cuts(s, k)} :
                          s \in StrsUpTo(MaxStyleText), k \in 0..1}

InitStyle ==
    \E ss \in StyleInitLists :
        LET r == String(ss)
        IN  /\ nodes = r.h
            /\ last = Call("String", nil, 0, ss, Nop, r, {})
            /\ sty = NoStyles

\* a Style is applied to a chain as String built it, or as a Style that added
\* no text left it
DoStyle ==
    /\ last = Idle
    /\ HeapText(nodes, Len(nodes)) <= MaxStyleText
    /\ \E t \in Refs, f \in StyleSet :
        LET r == Format(f, nodes, t)
        IN  /\ nodes' = r.h
            /\ last' = Call("Format", t, 0, <<>>, f, r, {})
            /\ UNCHANGED sty

NextStyle == DoStyle \/ Return

SpecStyle == InitStyle /\ [][NextStyle]_vars

----------------------------------------------------------------------------
(* Styles made with With.                                                   *)

StyleElems == {Nop, XPad(1, 1)}

InitWith ==
    /\ nodes = String(<<>>).h
    /\ last = Idle
    /\ \E n \in 0..MaxStyleLen, spare \in 0..MaxSpare :
         \E el \in [1..n -> StyleElems] :
            sty = IF n + spare = 0
                  THEN NoStyles
                  ELSE Styles(<<[i \in 1..(n + spare) |-> IF i <= n THEN el[i] ELSE Zero]>>,
                              SliceHeader(1, n, n + spare), el, <<>>)

DoWith ==
    /\ Len(sty.made) < MaxDerived
    /\ \E fs \in UNION {[1..k -> StyleElems] : k \in 0..MaxWithArgs} :
        LET r == With(sty.as, sty.s, fs)
        IN  sty' = [sty EXCEPT !.as = r.as, !.made = Append(@, [sl |-> r.sl, fs |-> fs])]
    /\ UNCHANGED <<nodes, last>>

NextWith == DoWith

SpecWith == InitWith /\ [][NextWith]_vars

----------------------------------------------------------------------------
(* The claims. *)

\* C1: String(ss...) holds the concatenation of its arguments, and every
\* Append(ss...) adds its strings left to right at the end of String(), every
\* Prepend(ss...) adds its strings left to right at the start, whatever
\* fragment the call or String() is made on.
C1_AppendPrependOrder ==
    /\ last.op = "String" => \A t \in Refs : TextString(nodes, t) = Concat(last.ss)
    /\ [][/\ last'.op = "Append" =>
              \A t \in 1..Len(nodes), u \in 1..Len(nodes') :
                  TextString(nodes', u) = TextString(nodes, t) \o Concat(last'.ss)
          /\ last'.op = "Prepend" =>
              \A t \in 1..Len(nodes), u \in 1..Len(nodes') :
                  TextString(nodes', u) = Concat(last'.ss) \o TextString(nodes, t)]_vars

C1_Witness ==
    /\ last.op = "Prepend"
    /\ Len(last.ss) = 2
    /\ last.ss[1] = <<"a">>
    /\ last.ss[2] = <<" ">>
    /\ Len(nodes) = 3

\* C4: Split(n) with 0 < n < len(S) keeps Head().String(); the receiver keeps
\* S[:n], the returned fragment holds S[n:] and is the receiver's Next, and the
\* receiver's old Next (nil when it was the tail) follows the returned fragment.
C4_SplitPreservesString ==
    [][(/\ last'.op = "Split"
        /\ 0 < last'.n
        /\ last'.n < Len(nodes[last'.t].S)) =>
          LET t == last'.t
              n == last'.n
              r == last'.ret
          IN  /\ ~last'.panic
              /\ \A x \in 1..Len(nodes) :
                    TextString(nodes', TextHead(nodes', x))
                        = TextString(nodes, TextHead(nodes, x))
              /\ nodes'[t].S = Slice(nodes[t].S, 0, n)
              /\ r \in 1..Len(nodes')
              /\ r \notin 1..Len(nodes)
              /\ nodes'[r].S = Slice(nodes[t].S, n, Len(nodes[t].S))
              /\ nodes'[t].Next = r
              /\ nodes'[r].Next = nodes[t].Next]_vars

C4_Witness ==
    /\ last.op = "Split"
    /\ ~last.panic
    /\ last.ret # last.t
    /\ nodes[last.t].Next = last.ret
    /\ nodes[last.ret].Next # nil
    /\ nodes[last.ret].S # <<>>

\* C5: on every reachable chain and from every fragment of it, Len() is the
\* length of String().
C5_LenIsStringLength ==
    \A t \in Refs : TextLen(nodes, t) = Len(TextString(nodes, t))

C5_Witness ==
    /\ Len(nodes) = 3
    /\ \E t \in Refs : nodes[t].S = <<>> /\ nodes[t].Prev # nil
    /\ \E t \in Refs : nodes[t].Prev # nil /\ TextLen(nodes, t) = 2
    /\ last.op = "Insert"

\* C9: Split(n) with n <= 0 or n > len(S) panics and leaves every fragment's
\* S, Prev and Next as they were.
C9_SplitOutOfRangePanics ==
    [][(/\ last'.op = "Split"
        /\ (last'.n <= 0 \/ last'.n > Len(nodes[last'.t].S))) =>
          /\ last'.panic
          /\ nodes' = nodes]_vars

C9_Witness ==
    /\ last.op = "Split"
    /\ last.panic
    /\ last.n > Len(nodes[last.t].S)
    /\ nodes[last.t].S # <<>>
    /\ Len(nodes) > 1

\* C10: Split(len(S)) on any fragment, and Split on an empty fragment, return
\* the receiver and leave the chain unchanged.
C10_SplitNoOp ==
    [][(/\ last'.op = "Split"
        /\ (last'.n = Len(nodes[last'.t].S) \/ Len(nodes[last'.t].S) = 0)) =>
          /\ ~last'.panic
          /\ last'.ret = last'.t
          /\ nodes' = nodes]_vars

----------------------------------------------------------------------------
(* The claims about LineWrap. *)

\* the pieces of s between the characters of seps
RECURSIVE Pieces(_, _)
Pieces(s, seps) ==
    IF \A i \in 1..Len(s) : s[i] \notin seps THEN <<s>>
    ELSE LET i == CHOOSE k \in 1..Len(s) :
                     s[k] \in seps /\ \A j \in 1..(k - 1) : s[j] \notin seps
         IN  <<SubSeq(s, 1, i - 1)>> \o Pieces(SubSeq(s, i + 1, Len(s)), seps)

NonEmpty(s) == s # <<>>

Lines(s) == Pieces(s, {"\n"})

\* the maximal runs of non-whitespace characters of s, in order
Words(s) == SelectSeq(Pieces(s, {" ", "\t", "\n"}), NonEmpty)

NotInCutset(c) == c \notin Cutset

WithoutSpacesAndTabs(s) == SelectSeq(s, NotInCutset)

RECURSIVE WriteBack(_, _)
WriteBack(h, at) == IF at = nil THEN <<>> ELSE WriteBack(h, h[at].Prev) \o h[at].S

RECURSIVE WriteSkipping(_, _, _)
WriteSkipping(h, at, skip) ==
    IF at = nil THEN <<>>
    ELSE (IF at \in skip THEN <<>> ELSE h[at].S) \o WriteSkipping(h, h[at].Next, skip)

LineWrapReturned == last.op = "Format" /\ last.f.kind = "LineWrap" /\ ~last.panic

\* C2: after LineWrap(width).Format every line of String() is at most width
\* long, unless the line holds a single word.
C2_LinesFitWidth ==
    LineWrapReturned =>
        LET lines == Lines(TextString(nodes, 1))
        IN  \A i \in 1..Len(lines) :
                Len(lines[i]) <= last.f.width \/ Len(Words(lines[i])) <= 1

\* C3: LineWrap never breaks up a word.  A call (whether it returns or
\* panics) keeps the words of String(); apart from the newlines it inserts it
\* only deletes spaces and tabs; and a text without whitespace is unchanged.
C3_NeverBreaksWord ==
    [][(last'.op = "Format" /\ last'.f.kind = "LineWrap") =>
          LET before == TextString(nodes, 1)
              after == TextString(nodes', 1)
              kept == WriteSkipping(nodes', TextHead(nodes', 1), last'.breaks)
          IN  /\ Words(after) = Words(before)
              /\ WithoutSpacesAndTabs(kept) = WithoutSpacesAndTabs(before)
              /\ \A b \in last'.breaks : nodes'[b].S = <<"\n">>
              /\ Len(after) <= Len(before) \/ last'.breaks # {}
              /\ (\A i \in 1..Len(before) : ~IsSpace(before[i])) => after = before]_vars

C3_Witness ==
    /\ LineWrapReturned
    /\ Cardinality(last.breaks) = 1
    /\ Len(Words(TextString(nodes, 1))) = 2
    /\ \E i \in 1..Len(Words(TextString(nodes, 1))) :
            Len(Words(TextString(nodes, 1))[i]) > last.f.width

\* C8: after LineWrap(width).Format no newline LineWrap inserted has a space
\* or tab right before it or right after it in String().
C8_NoSpaceAroundBreak ==
    LineWrapReturned =>
        \A b \in last.breaks :
            LET before == WriteBack(nodes, nodes[b].Prev)
                after == WriteFrom(nodes, nodes[b].Next)
            IN  /\ before = <<>> \/ before[Len(before)] \notin {" ", "\t"}
                /\ after = <<>> \/ after[1] \notin {" ", "\t"}

----------------------------------------------------------------------------
(* The claims about Style. *)

\* C6: With never changes its receiver, and the Styles made from one Style do
\* not disturb each other: each holds the receiver's formatters followed by
\* its own arguments, whatever spare capacity the receiver has.
C6_WithCopies ==
    /\ sty.s.len = Len(sty.s0)
    /\ Elems(sty.as, sty.s) = sty.s0
    /\ \A i \in 1..Len(sty.made) :
          Elems(sty.as, sty.made[i].sl) = sty.s0 \o sty.made[i].fs

C6_Witness ==
    /\ Len(sty.made) = 2
    /\ sty.s.len > 0
    /\ sty.s.cap > sty.s.len
    /\ sty.made[1].fs # <<>>
    /\ sty.made[2].fs # <<>>
    /\ sty.made[1].fs[1] # sty.made[2].fs[1]

\* the formatters of f that are no Style, in the order Style.Format reaches them
RECURSIVE Flatten(_)
RECURSIVE FlattenAll(_)
Flatten(f) == IF f.kind = "Style" THEN FlattenAll(f.fs) ELSE <<f>>
FlattenAll(fs) == IF fs = <<>> THEN <<>> ELSE Flatten(Head(fs)) \o FlattenAll(Tail(fs))

\* the formatters of fs applied one by one, each a call of its own
RECURSIVE ApplyEach(_, _, _)
ApplyEach(fs, h, t) ==
    IF fs = <<>> THEN [h |-> h, panic |-> FALSE]
    ELSE LET r == CASE Head(fs).kind = "Wrap" ->
                          WrapFormat(h, t, Head(fs).prefix, Head(fs).suffix)
                    [] Head(fs).kind = "XPad" ->
                          XPadFormat(h, t, Head(fs).left, Head(fs).right)
                    [] Head(fs).kind = "LineWrap" -> LineWrapFormat(h, t, Head(fs).width)
                    [] Head(fs).kind = "Nop" -> [h |-> h, panic |-> FALSE]
         IN  IF r.panic THEN [h |-> r.h, panic |-> TRUE] ELSE ApplyEach(Tail(fs), r.h, t)

RECURSIVE Prefixes(_)
Prefixes(ws) == IF ws = <<>> THEN <<>> ELSE Prefixes(Tail(ws)) \o Head(ws).prefix

RECURSIVE Suffixes(_)
Suffixes(ws) == IF ws = <<>> THEN <<>> ELSE Head(ws).suffix \o Suffixes(Tail(ws))

\* C7: applying a Style is applying its members in order, a Style among them
\* being its own members in order; a Style of k Wraps puts the prefixes, last
\* to first, before the text and the suffixes, first to last, after it, in 2k
\* new fragments, k before the old head and k after the old tail, and changes
\* no S of the fragments there were.
C7_StyleAppliesInOrder ==
    [][(last'.op = "Format" /\ last'.f.kind = "Style") =>
          LET ws == Flatten(last'.f)
              t == last'.t
              each == ApplyEach(ws, nodes, t)
              k == Len(ws)
          IN  /\ nodes' = each.h
              /\ last'.panic = each.panic
              /\ (\A i \in 1..k : ws[i].kind = "Wrap") =>
                    /\ ~last'.panic
                    /\ TextString(nodes', t)
                          = Prefixes(ws) \o TextString(nodes, t) \o Suffixes(ws)
                    /\ Len(nodes') = Len(nodes) + 2 * k
                    /\ \A i \in 1..Len(nodes) : nodes'[i].S = nodes[i].S
                    /\ k > 0 =>
                          /\ TextHead(nodes', t) \notin 1..Len(nodes)
                          /\ nodes'[TextHead(nodes', t)].S = ws[k].prefix
                          /\ TextTail(nodes', t) \notin 1..Len(nodes)
                          /\ nodes'[TextTail(nodes', t)].S = ws[k].suffix]_vars

C7_Witness ==
    /\ last.op = "Format"
    /\ last.f = Style(<<Style(<<Wrap(<<"a">>, <<" ">>)>>), Wrap(<<" ">>, <<"a">>)>>)
    /\ Len(nodes) = 6
    /\ \E t \in Refs : Len(nodes[t].S) = 2

----------------------------------------------------------------------------
(* Insert on the chain head.                                                *)

\* C11 as stated: Insert called on the chain head (Prev = nil) fails, and
\* no fragment is spliced in before the head.
C11_InsertOnHeadFails ==
    [][(last'.op = "Insert" /\ nodes[last'.t].Prev = nil)
          => (last'.panic /\ nodes' = nodes)]_vars

\* C11, amended: Insert called on the chain head (Prev = nil) is guarded. It
\* does not fail: it allocates one fragment holding s, links it before the
\* receiver with Prev = nil, so that the new fragment is the head of the
\* chain, returns it, and String() becomes s followed by the text before.
C11_InsertOnHeadSplices ==
    [][(last'.op = "Insert" /\ nodes[last'.t].Prev = nil)
          => /\ ~last'.panic
             /\ last'.ret = Len(nodes) + 1
             /\ Len(nodes') = Len(nodes) + 1
             /\ nodes'[last'.ret] = Text(last'.ss[1], last'.t, nil)
             /\ nodes'[last'.t] = [nodes[last'.t] EXCEPT !.Prev = last'.ret]
             /\ \A i \in 1..Len(nodes) : i # last'.t => nodes'[i] = nodes[i]
             /\ TextHead(nodes', last'.t) = last'.ret
             /\ TextString(nodes', last'.t) = last'.ss[1] \o TextString(nodes, last'.t)]_vars

\* Insert of a non-empty string has acted on the head of a chain of two
\* fragments or more
C11_Witness ==
    /\ last.op = "Insert"
    /\ ~last.panic
    /\ last.ss[1] # <<>>
    /\ nodes[last.ret].Prev = nil
    /\ nodes[last.ret].Next = last.t
    /\ nodes[last.t].Next # nil

----------------------------------------------------------------------------
(* The references Append and Prepend return.                                *)

\* C12: for every receiver and every argument list, the fragment Append
\* returns is the tail of the chain (Next = nil) and the fragment Prepend
\* returns is its head (Prev = nil).
C12_ReturnsTailAndHead ==
    /\ last.op = "Append" => nodes[last.ret].Next = nil
    /\ last.op = "Prepend" => nodes[last.ret].Prev = nil

----------------------------------------------------------------------------
(* The shape of the chain.                                                  *)

\* the fragments met walking Next from at, in at most k steps; a walk that
\* has not reached nil by then ends with nil
RECURSIVE WalkNext(_, _, _)
WalkNext(h, at, k) ==
    IF at = nil THEN <<>>
    ELSE IF k = 0 THEN <<nil>>
    ELSE <<at>> \o WalkNext(h, h[at].Next, k - 1)

RECURSIVE WalkPrev(_, _, _)
WalkPrev(h, at, k) ==
    IF at = nil THEN <<>>
    ELSE IF k = 0 THEN <<nil>>
    ELSE <<at>> \o WalkPrev(h, h[at].Prev, k - 1)

Range(w) == {w[i] : i \in 1..Len(w)}

Heads(h) == {i \in 1..Len(h) : h[i].Prev = nil}

Tails(h) == {i \in 1..Len(h) : h[i].Next = nil}

WellFormed(h) ==
    /\ \A i \in 1..Len(h) :
          /\ h[i].Next \in 0..Len(h)
          /\ h[i].Prev \in 0..Len(h)
          /\ h[i].Next # nil => h[h[i].Next].Prev = i
          /\ h[i].Prev # nil => h[h[i].Prev].Next = i
    /\ Cardinality(Heads(h)) = 1
    /\ Cardinality(Tails(h)) = 1
    /\ \A i \in 1..Len(h) :
          /\ nil \notin Range(WalkNext(h, i, Len(h)))
          /\ nil \notin Range(WalkPrev(h, i, Len(h)))
    /\ \A i \in Heads(h) : Range(WalkNext(h, i, Len(h))) = 1..Len(h)
    /\ \A i \in 1..Len(h) :
          /\ TextHead(h, i) \in Heads(h)
          /\ TextTail(h, i) \in Tails(h)

\* C13: after every sequence of String, Append, Prepend, Split, Insert and
\* formatter calls the chain is a finite doubly linked list: acyclic, with
\* one head and one tail, Next and Prev inverse of each other, and Head() and
\* Tail() give the same head and tail from every fragment.
C13_ChainWellFormed == WellFormed(nodes)

\* Insert has spliced a fragment between two fragments of the chain
C13_Witness ==
    /\ last.op = "Insert"
    /\ ~last.panic
    /\ nodes[last.ret].Prev # nil
    /\ nodes[nodes[last.ret].Prev].Next = last.ret
    /\ nodes[last.ret].Next = last.t

----------------------------------------------------------------------------
(* LineWrap's failures.                                                     *)

\* C14: LineWrap(width).Format runs to completion on every chain and for
\* every width >= 0: it never calls Split with an index outside 1..len(S)
\* and never slices a fragment's string with a bound outside 0..len(S).
C14_LineWrapTotal == last.op = "Format" => ~last.panic

----------------------------------------------------------------------------
(* LineWrap's column counter.                                               *)

\* the states of LineWrap's loop, from st on: before the first fragment,
\* after each one, and at the end
RECURSIVE LineWrapSteps(_, _)
LineWrapSteps(st, width) ==
    IF st.panic \/ st.at = nil THEN {st}
    ELSE {st} \cup LineWrapSteps(LineWrapBody(st, width), width)

\* the text the loop has gone over: the fragments before the cursor, and
\* the newline under the cursor when the loop has just inserted it
Scanned(st) ==
    IF st.at = nil THEN TextString(st.h, 1)
    ELSE WriteBack(st.h, st.h[st.at].Prev)
            \o (IF st.at \in st.breaks THEN st.h[st.at].S ELSE <<>>)

\* the number of characters of s after its last newline
LineLength(s) == Len(Lines(s)[Len(Lines(s))])

\* C15: at every step of LineWrap's pass col is the number of characters on
\* the current line since the last newline, pre-existing or inserted: col is
\* reset to 0 at every newline.
C15_ColIsLineLength ==
    [][(last'.op = "Format" /\ last'.f.kind = "LineWrap")
          => \A st \in LineWrapSteps([h |-> nodes, at |-> TextHead(nodes, 1), col |-> 0,
                                      panic |-> FALSE, breaks |-> {}], last'.f.width) :
                ~st.panic => st.col = LineLength(Scanned(st))]_vars

====
